---- MODULE Spec2Model ----
(***************************************************************************)
(* Training and evaluation pipeline of QML-for-btag.                       *)
(*                                                                         *)
(*   src/my_model_mps.py : Run_Model, Train_Model, Test_Model,             *)
(*                         Batch_and_Shuffle, Train_Step, Test_Step        *)
(*   src/test.py         : QuantumModel (split, train_step, training loop) *)
(*                                                                         *)
(* The two scripts are two programs; `script` says which one a behaviour   *)
(* runs.  A Python exception that nothing catches ends the program: the    *)
(* model records it in `err` and moves `pc` to "crashed".                  *)
(*                                                                         *)
(* External libraries are abstracted, and only they:                       *)
(*   - the PennyLane circuit is an opaque predictor with values in         *)
(*     {-1, 0, 1}, a function of the row and of the parameters;            *)
(*   - the parameter tensor is one residue modulo ParamMod, the jax adam   *)
(*     state is the triple (x, m, v) of such residues;                     *)
(*   - a mean is the pair <<sum, count>>.                                  *)
(***************************************************************************)
EXTENDS Integers, Sequences, FiniteSets

\* ------------------------------------------------------------- bounds
\* Largest dataset (rows) my_model_mps.py is run on.
MaxN == 5
\* Epoch counts 0..MaxEpochs are tried next to the reporting period itself.
MaxEpochs == 1
\* Parameters, moments and gradients are residues modulo ParamMod.
ParamMod == 3
\* test.py: datasets of up to MaxChunksQM * depth rows (plus a remainder).
MaxChunksQM == 2
\* Largest step index handed to Train_Step when it is applied on its own.
MaxStepId == 2

\* -------------------------------------------------- program constants
N_QUBITS == 16
\* `(i+1) % 100 == 0`: reporting / checkpoint period of both scripts.
PERIOD == 100
\* test.py: `depth = 250`, the rows of one chunk.
QM_DEPTH == 250

\* A local variable no assignment has bound yet; Bound(v) once it holds v.
Unbound == <<>>
Bound(v) == <<v>>
\* A slot of a frame that is not in use.
None == "-"

\* ------------------------------------------------------------- helpers
\* s[lo] + ... + s[hi], by halves.
RECURSIVE SumRange(_, _, _)
SumRange(s, lo, hi) ==
  IF lo > hi THEN 0
  ELSE IF lo = hi THEN s[lo]
  ELSE LET mid == (lo + hi) \div 2
       IN  SumRange(s, lo, mid) + SumRange(s, mid + 1, hi)
\* The sum of a sequence of numbers.
SumSeq(s) == SumRange(s, 1, Len(s))

\* The orders np.random.shuffle can leave n rows in, for each n up to MaxN.
AllPermutations ==
  [n \in 0..MaxN |->
     {p \in [1..n -> 1..n] : \A a, b \in 1..n : a # b => p[a] # p[b]}]
Permutations_(n) == AllPermutations[n]

\* np.zeros(n)
Zeros(n) == [k \in 1..n |-> 0]

\* --------------------------------------------- dataset (external ld_full)
\* Row r of a feature matrix: N_QUBITS columns, no two rows alike.
FeatureRow(r) == [c \in 1..N_QUBITS |-> r + c - 1]
\* Labels in the {-1,+1} encoding.
Label(r) == IF r % 2 = 1 THEN 1 ELSE -1
\* The feature matrix and the label vector of an n-row dataset.
Features(n) == [r \in 1..n |-> FeatureRow(r)]
Targets(n) == [r \in 1..n |-> Label(r)]

\* ---------------------------------------------- predictor and metrics
\* The circuit on one row: an expectation value, here one of -1, 0, 1.
Predict(row, w) == ((row[1] + w) % 3) - 1

\* Circuit(x,w), vectorised over the rows of x (jax.vmap, in_axes=[0,None]):
\* one prediction per row, the same w for every row.
Circuit(x, w) == [k \in 1..Len(x) |-> Predict(x[k], w)]

\* jax.numpy.sign
Sign(v) == IF v > 0 THEN 1 ELSE IF v < 0 THEN -1 ELSE 0

\* Loss(w,x,y) = mean((pred - y) ** 2), pred = Circuit(x,w)
Loss(w, x, y) ==
  <<SumSeq([k \in 1..Len(x) |->
              (Predict(x[k], w) - y[k]) * (Predict(x[k], w) - y[k])]), Len(x)>>

\* Accuracy(w,x,y) = mean(sign(pred) == y), pred = Circuit(x,w)
Accuracy(w, x, y) ==
  <<SumSeq([k \in 1..Len(x) |->
              IF Sign(Predict(x[k], w)) = y[k] THEN 1 ELSE 0]), Len(x)>>

\* The gradient half of jax.value_and_grad(Loss, argnums=0)(w,x,y): a residue
\* that depends on the parameters and on the batch.
Grad(w, x, y) ==
  (SumSeq([k \in 1..Len(x) |-> Predict(x[k], w) - y[k]]) + w + 1) % ParamMod

\* ------------------------------------------------- adam(LR) (jax library)
\* opt_init(x0) = (x0, zeros, zeros)
opt_init(x0) == [x |-> x0, m |-> 0, v |-> 0]

\* opt_update(i, g, state): new moments from g, new parameters from the
\* moments and from the step index i (the bias correction uses i + 1).
opt_update(i, g, state) ==
  LET m == (g + state.m) % ParamMod
      v == (g * g + state.v) % ParamMod
  IN  [x |-> (state.x + 1 + m + v * (i + 1)) % ParamMod, m |-> m, v |-> v]

\* get_params(state) = x
get_params(state) == state.x

\* weights = jax.random.uniform(PRNGKey(SEED), ...) * pi: fixed by the seed.
weights == 0

VARIABLES
  script,      \* "mps" (my_model_mps.py), "qm" (test.py), "step" (Train_Step alone)
  pc,          \* the statement the program is at
  err,         \* the exception that ended the program, "" while none
  TRAIN_SIZE, TEST_SIZE, BATCH_SIZE, N_EPOCHS,   \* the scripts' constants
  opt_state,   \* my_model_mps.py: the module-level opt_state (line 70)
  train,       \* my_model_mps.py: the local variables of Train_Model
  test,        \* my_model_mps.py: the local variables of Test_Model
  files,       \* np.save calls so far: <<<<file name, epoch>>, parameters>>
  printed,     \* progress lines so far: <<epoch, loss, accuracy>>
  qm,          \* test.py: the local variables of QuantumModel
  ts,          \* the local variables of one Train_Step call
  ghost        \* history: what was called, and with which arguments

vars == <<script, pc, err, TRAIN_SIZE, TEST_SIZE, BATCH_SIZE, N_EPOCHS,
          opt_state, train, test, files, printed, qm, ts, ghost>>

config == <<script, TRAIN_SIZE, TEST_SIZE, BATCH_SIZE, N_EPOCHS>>

\* ------------------------------------------------------- Batch_and_Shuffle
\* np.split(ary, sections) for an integer `sections`: `N % sections` is
\* evaluated first (ZeroDivisionError for 0 sections), an unequal division
\* raises ValueError, otherwise `sections` consecutive parts of N/sections rows.
np_split(ary, sections) ==
  IF sections = 0 THEN [err |-> "ZeroDivisionError", parts |-> <<>>]
  ELSE IF Len(ary) % sections # 0 THEN [err |-> "ValueError", parts |-> <<>>]
  ELSE LET q == Len(ary) \div sections
       IN  [err |-> "",
            parts |-> [b \in 1..sections |-> SubSeq(ary, (b - 1) * q + 1, b * q)]]

\* np.column_stack([x,y]): row r is the columns of x[r] followed by y[r].
column_stack(x, y) == [r \in 1..Len(x) |-> Append(x[r], y[r])]

\* np.random.shuffle(data) with the drawn permutation p: rows move whole.
shuffle(data, p) == [k \in 1..Len(data) |-> data[p[k]]]

\* Batch_and_Shuffle with only the features shuffled: the labels keep their order.
Batch_and_Shuffle_Misaligned(x, y, p) ==
  LET z == Len(x) \div BATCH_SIZE
      fs == np_split(shuffle(x, p), z)
      tt == np_split(y, z)
  IN  [err |-> IF fs.err # "" THEN fs.err ELSE tt.err,
       f |-> fs.parts, t |-> tt.parts, z |-> z]

\* Batch_and_Shuffle(x,y) under the permutation p drawn by np.random.shuffle.
\* data[:,0:N_QUBITS] keeps the first N_QUBITS columns, data[:,-1] the last.
Batch_and_Shuffle(x, y, p) ==
  LET z == Len(x) \div BATCH_SIZE
      data == shuffle(column_stack(x, y), p)
      fs == np_split([r \in 1..Len(data) |->
                        SubSeq(data[r], 1, IF N_QUBITS < Len(data[r])
                                           THEN N_QUBITS ELSE Len(data[r]))], z)
      tt == np_split([r \in 1..Len(data) |-> data[r][Len(data[r])]], z)
  IN  [err |-> IF fs.err # "" THEN fs.err ELSE tt.err,
       f |-> fs.parts, t |-> tt.parts, z |-> z]

\* ------------------------------------------------- Train_Step / Test_Step
\* Train_Step with the accuracy taken after the update, at the new parameters.
Train_Step_AccuracyAfterUpdate(stepid, state, train_f, train_t) ==
  LET current_w == get_params(state)
      loss_value == Loss(current_w, train_f, train_t)
      grads == Grad(current_w, train_f, train_t)
      new_state == opt_update(stepid, grads, state)
  IN  [loss |-> loss_value,
       acc |-> Accuracy(get_params(new_state), train_f, train_t),
       opt_state |-> new_state, upd_i |-> stepid]

\* Train_Step(stepid, opt_state, train_f, train_t): the jitted function as a
\* whole.  upd_i is the step index it hands to opt_update.
Train_Step(stepid, state, train_f, train_t) ==
  LET current_w == get_params(state)
      loss_value == Loss(current_w, train_f, train_t)
      grads == Grad(current_w, train_f, train_t)
      acc_value == Accuracy(current_w, train_f, train_t)
  IN  [loss |-> loss_value, acc |-> acc_value,
       opt_state |-> opt_update(stepid, grads, state), upd_i |-> stepid]

\* Test_Step(current_w, test_f, test_t): the gradient is computed and dropped.
Test_Step(current_w, test_f, test_t) ==
  [loss |-> Loss(current_w, test_f, test_t),
   acc |-> Accuracy(current_w, test_f, test_t)]

\* np.average of per-batch means.
Average(means) ==
  <<SumSeq([k \in 1..Len(means) |-> means[k][1]]),
    SumSeq([k \in 1..Len(means) |-> means[k][2]])>>

\* ---------------------------------------------------------- frames at rest
\* Train_Model's locals.  opt_state is a local of Train_Model, because line
\* 106 assigns it and no `global` statement names it.
NoTrain == [z |-> None, loss_data |-> None, acc_data |-> None,
            step |-> None, i |-> None, j |-> None,
            train_f |-> None, train_t |-> None, chunks |-> None,
            opt_state |-> Unbound]

NoTest == [w |-> None, test_f |-> None, test_t |-> None,
           chunks |-> None, loss_temp |-> None, acc_temp |-> None,
           j |-> None, loss_data |-> None, acc_data |-> None]

NoQM == [depth |-> None]

NoTS == [fn |-> None]

\* mode: the branch Run_Model took, "train" or "load";
\* step_args: the opt_state argument of each Train_Step call of Train_Model
\*   (Unbound when reading it raised); step_rets: the state each call returned;
\* upd_ids: the step index of each opt_update call;
\* slots: the slots of loss_data/acc_data written, in order;
\* shuffles, test_steps: the Batch_and_Shuffle and Test_Step calls of Test_Model;
\* w_in: the w Test_Model was given; returned: what Train_Model returned.
NoGhost == [mode |-> None, step_args |-> <<>>, step_rets |-> <<>>,
            upd_ids |-> <<>>, slots |-> <<>>,
            shuffles |-> 0, test_steps |-> 0, w_in |-> None, returned |-> Unbound]

Crash(e) == pc' = "crashed" /\ err' = e

\* Epoch counts tried: none, a few, and the reporting period.
EpochCounts == {0, MaxEpochs, PERIOD}

\* Dataset sizes tried: every training size up to MaxN, with a test set of the
\* same size (as in test.py) or of half the size (as in my_model_mps.py).
DatasetSizes == {<<n, n>> : n \in 1..MaxN} \cup {<<n, (n + 1) \div 2>> : n \in 1..MaxN}

\* Parameter tensors a checkpoint file may hold.
LoadedWeights == {weights, ParamMod - 1}

\* ------------------------------------------------------ my_model_mps.py
InitMPS ==
  /\ script = "mps" /\ pc = "run_model" /\ err = ""
  /\ \E sz \in DatasetSizes : TRAIN_SIZE = sz[1] /\ TEST_SIZE = sz[2]
  /\ BATCH_SIZE \in 1..(MaxN + 1)
  /\ N_EPOCHS \in EpochCounts
  /\ opt_state = opt_init(weights)
  /\ train = NoTrain /\ test = NoTest /\ files = <<>> /\ printed = <<>>
  /\ qm = NoQM /\ ts = NoTS /\ ghost = NoGhost

\* Run_Model: the file name typed decides between testing loaded weights
\* and training.  np.load yields some parameter tensor w.
Run_Model ==
  /\ script = "mps" /\ pc = "run_model"
  /\ \/ \E w \in LoadedWeights :
          /\ pc' = "test_model"
          /\ test' = [NoTest EXCEPT !.w = w]
          /\ ghost' = [ghost EXCEPT !.w_in = w, !.mode = "load"]
     \/ /\ pc' = "train_model"
        /\ ghost' = [ghost EXCEPT !.mode = "train"]
        /\ UNCHANGED test
  /\ UNCHANGED <<config, err, opt_state, train, files, printed, qm, ts>>

\* Train_Model, lines 95-100.
Train_Model_Enter ==
  /\ script = "mps" /\ pc = "train_model"
  /\ LET z == TRAIN_SIZE \div BATCH_SIZE
     IN  train' = [NoTrain EXCEPT !.z = z, !.loss_data = Zeros(N_EPOCHS * z),
                                  !.acc_data = Zeros(N_EPOCHS * z),
                                  !.step = 0, !.i = 0]
  /\ pc' = "train_epoch"
  /\ UNCHANGED <<config, err, opt_state, test, files, printed, qm, ts, ghost>>

\* Train_Model, lines 101-103: the head of `for i in range(N_EPOCHS)` and the
\* call of Batch_and_Shuffle.
Train_Epoch ==
  /\ script = "mps" /\ pc = "train_epoch"
  /\ IF train.i < N_EPOCHS
     THEN \E p \in Permutations_(TRAIN_SIZE) :
            \E r \in {Batch_and_Shuffle(Features(TRAIN_SIZE), Targets(TRAIN_SIZE), p)} :
                IF r.err # ""
                THEN Crash(r.err) /\ UNCHANGED train
                ELSE /\ train' = [train EXCEPT !.train_f = r.f, !.train_t = r.t,
                                               !.chunks = r.z, !.j = 0]
                     /\ pc' = "train_batch" /\ UNCHANGED err
     ELSE pc' = "train_final" /\ UNCHANGED <<train, err>>
  /\ UNCHANGED <<config, opt_state, test, files, printed, qm, ts, ghost>>

\* Train_Model, lines 105-111: one pass of `for j in range(chunks)`, and after
\* the last one the periodic report.  Line 106 reads the local opt_state to
\* build Train_Step's arguments, UnboundLocalError while it is unbound.  Line
\* 110 reads the name sgtep, which nothing defines: NameError, so line 111
\* (np.save of the periodic checkpoint) is never run.
Train_Batch ==
  /\ script = "mps" /\ pc = "train_batch"
  /\ IF train.j < train.chunks
     THEN IF train.opt_state = Unbound
          THEN /\ Crash("UnboundLocalError")
               /\ ghost' = [ghost EXCEPT !.step_args = Append(@, Unbound)]
               /\ UNCHANGED train
          ELSE \E r \in {Train_Step(train.step, train.opt_state[1],
                                     train.train_f[train.j + 1],
                                     train.train_t[train.j + 1])} :
                   /\ train' = [train EXCEPT
                                  !.loss_data = [@ EXCEPT ![train.step + 1] = r.loss],
                                  !.acc_data = [@ EXCEPT ![train.step + 1] = r.acc],
                                  !.opt_state = Bound(r.opt_state),
                                  !.step = @ + 1, !.j = @ + 1]
                   /\ ghost' = [ghost EXCEPT
                                  !.step_args = Append(@, train.opt_state),
                                  !.step_rets = Append(@, r.opt_state),
                                  !.upd_ids = Append(@, r.upd_i),
                                  !.slots = Append(@, train.step)]
                   /\ UNCHANGED <<pc, err>>
     ELSE IF (train.i + 1) % PERIOD = 0
          THEN Crash("NameError") /\ UNCHANGED <<train, ghost>>
          ELSE /\ train' = [train EXCEPT !.i = @ + 1]
               /\ pc' = "train_epoch" /\ UNCHANGED <<err, ghost>>
  /\ UNCHANGED <<config, opt_state, test, files, printed, qm, ts>>

\* Train_Model, lines 113-116, and Run_Model, lines 199-204: the final
\* checkpoint, the return, and the call of Test_Model with the final weights.
Train_Final ==
  /\ script = "mps" /\ pc = "train_final"
  /\ IF train.opt_state = Unbound
     THEN Crash("UnboundLocalError") /\ UNCHANGED <<files, ghost, test>>
     ELSE /\ files' = Append(files, <<<<"final_mps_weights", 0>>,
                                      get_params(train.opt_state[1])>>)
          /\ ghost' = [ghost EXCEPT !.returned = train.opt_state,
                                    !.w_in = get_params(train.opt_state[1])]
          /\ test' = [NoTest EXCEPT !.w = get_params(train.opt_state[1])]
          /\ pc' = "test_model" /\ UNCHANGED err
  /\ UNCHANGED <<config, opt_state, train, printed, qm, ts>>

\* Test_Model, lines 119-124.
Test_Model_Enter ==
  /\ script = "mps" /\ pc = "test_model"
  /\ \E p \in Permutations_(TEST_SIZE) :
       \E r \in {Batch_and_Shuffle(Features(TEST_SIZE), Targets(TEST_SIZE), p)} :
           IF r.err # ""
           THEN Crash(r.err) /\ UNCHANGED test
           ELSE /\ test' = [test EXCEPT !.test_f = r.f, !.test_t = r.t,
                                        !.chunks = r.z, !.loss_temp = Zeros(r.z),
                                        !.acc_temp = Zeros(r.z), !.j = 0]
                /\ pc' = "test_batch" /\ UNCHANGED err
  /\ ghost' = [ghost EXCEPT !.shuffles = @ + 1]
  /\ UNCHANGED <<config, opt_state, train, files, printed, qm, ts>>

\* The evaluation loop running a training step: the optimizer is updated and
\* the parameters follow it.
Test_Batch_Training ==
  /\ script = "mps" /\ pc = "test_batch" /\ test.j < test.chunks
  /\ LET r == Train_Step(test.j, opt_state, test.test_f[test.j + 1], test.test_t[test.j + 1])
     IN  /\ test' = [test EXCEPT !.loss_temp = [@ EXCEPT ![test.j + 1] = r.loss],
                                 !.acc_temp = [@ EXCEPT ![test.j + 1] = r.acc],
                                 !.w = get_params(r.opt_state),
                                 !.j = @ + 1]
         /\ opt_state' = r.opt_state
         /\ ghost' = [ghost EXCEPT !.test_steps = @ + 1, !.upd_ids = Append(@, r.upd_i)]
  /\ UNCHANGED <<config, pc, err, train, files, printed, qm, ts>>

\* Test_Model, lines 126-127: one pass of `for j in range(chunks)`.
Test_Batch ==
  /\ script = "mps" /\ pc = "test_batch" /\ test.j < test.chunks
  /\ \E r \in {Test_Step(test.w, test.test_f[test.j + 1], test.test_t[test.j + 1])} :
         test' = [test EXCEPT !.loss_temp = [@ EXCEPT ![test.j + 1] = r.loss],
                              !.acc_temp = [@ EXCEPT ![test.j + 1] = r.acc],
                              !.j = @ + 1]
  /\ ghost' = [ghost EXCEPT !.test_steps = @ + 1]
  /\ UNCHANGED <<config, pc, err, opt_state, train, files, printed, qm, ts>>

\* Test_Model, lines 129-134: the averages, the line printed, the return.
Test_Model_Return ==
  /\ script = "mps" /\ pc = "test_batch" /\ test.j = test.chunks
  /\ test' = [test EXCEPT !.loss_data = Average(test.loss_temp),
                          !.acc_data = Average(test.acc_temp)]
  /\ pc' = "test_done"
  /\ UNCHANGED <<config, err, opt_state, train, files, printed, qm, ts, ghost>>

NextMPS ==
  \/ Run_Model \/ Train_Model_Enter \/ Train_Epoch \/ Train_Batch \/ Train_Final
  \/ Test_Model_Enter \/ Test_Batch \/ Test_Model_Return

\* --------------------------------------------------------------- test.py
\* Row sizes QuantumModel is called with: whole chunks of `depth` rows, and
\* the same with 100 rows more.
QMSizes == {c * QM_DEPTH + r : c \in 0..MaxChunksQM, r \in {0, 100}}

\* Rows lo..hi of the feature matrix and of the label vector.
FeatureRows(lo, hi) == [k \in 1..(hi - lo + 1) |-> FeatureRow(lo + k - 1)]
TargetRows(lo, hi) == [k \in 1..(hi - lo + 1) |-> Label(lo + k - 1)]

\* split(data, rows) on a dataset of n rows: depth = n // rows, then
\* jnp.split(data, depth), which divides by depth first and refuses an unequal
\* division.  A dataframe is kept as its row range <<lo, hi>>.
split(n, rows) ==
  LET depth == n \div rows
      q == IF depth = 0 THEN 0 ELSE n \div depth
  IN  IF depth = 0 THEN [err |-> "ZeroDivisionError", dataframes |-> <<>>, depth |-> depth]
      ELSE IF n % depth # 0 THEN [err |-> "ValueError", dataframes |-> <<>>, depth |-> depth]
      ELSE [err |-> "",
            dataframes |-> [b \in 1..depth |-> <<(b - 1) * q + 1, b * q>>],
            depth |-> depth]

\* train_step(stepid, opt_state, x, y) of QuantumModel; loss_fn and acc_fn
\* are Loss and Accuracy over QuantumModel's own circuit.
train_step(stepid, state, x, y) ==
  LET current_w == get_params(state)
      loss_value == Loss(current_w, x, y)
      grads == Grad(current_w, x, y)
      acc_value == Accuracy(current_w, x, y)
  IN  [loss |-> loss_value, acc |-> acc_value,
       opt_state |-> opt_update(stepid, grads, state), upd_i |-> stepid]

InitQM ==
  /\ script = "qm" /\ pc = "qm_enter" /\ err = ""
  /\ TRAIN_SIZE \in QMSizes /\ TEST_SIZE \in QMSizes
  /\ BATCH_SIZE = QM_DEPTH    \* test.py has no BATCH_SIZE: its chunks hold `depth` rows
  /\ N_EPOCHS \in EpochCounts
  /\ opt_state = opt_init(weights)
  /\ train = NoTrain /\ test = NoTest /\ files = <<>> /\ printed = <<>>
  /\ qm = NoQM /\ ts = NoTS /\ ghost = NoGhost

\* QuantumModel, lines 14-76: the four splits (each rebinding chunks), the
\* optimizer and the metric arrays.
QM_Enter ==
  /\ script = "qm" /\ pc = "qm_enter"
  /\ LET depth == QM_DEPTH
         s1 == split(TRAIN_SIZE, depth)
         s2 == split(TRAIN_SIZE, depth)
         s3 == split(TEST_SIZE, depth)
         s4 == split(TEST_SIZE, depth)
         e == IF s1.err # "" THEN s1.err ELSE IF s2.err # "" THEN s2.err
              ELSE IF s3.err # "" THEN s3.err ELSE s4.err
     IN  IF e # ""
         THEN Crash(e) /\ UNCHANGED qm
         ELSE /\ qm' = [depth |-> depth,
                        train_dataframe |-> s1.dataframes,
                        train_target_dataframe |-> s2.dataframes,
                        test_dataframe |-> s3.dataframes,
                        test_target_dataframe |-> s4.dataframes,
                        chunks |-> s4.depth,
                        opt_state |-> opt_init(weights),
                        train_loss_data |-> Zeros(N_EPOCHS),
                        train_acc_data |-> Zeros(N_EPOCHS),
                        i |-> 0, j |-> 0,
                        loss_temp |-> <<>>, acc_temp |-> <<>>,
                        loss_value |-> Unbound, acc_value |-> Unbound,
                        final_state |-> Unbound]
              /\ pc' = "qm_epoch" /\ UNCHANGED err
  /\ UNCHANGED <<config, opt_state, train, test, files, printed, ts, ghost>>

\* QuantumModel, lines 77-79 and 88: the head of `for i in range(N_EPOCHS)`.
QM_Epoch ==
  /\ script = "qm" /\ pc = "qm_epoch"
  /\ IF qm.i < N_EPOCHS
     THEN /\ qm' = [qm EXCEPT !.loss_temp = Zeros(qm.chunks),
                              !.acc_temp = Zeros(qm.chunks), !.j = 0]
          /\ pc' = "qm_batch"
     ELSE /\ qm' = [qm EXCEPT !.final_state = Bound(qm.opt_state)]
          /\ pc' = "qm_trained"
  /\ UNCHANGED <<config, err, opt_state, train, test, files, printed, ts, ghost>>

\* QuantumModel, lines 80-83: one pass of `for j in range(chunks)`.  The step
\* index handed to train_step is the epoch index i.
QM_Batch ==
  /\ script = "qm" /\ pc = "qm_batch" /\ qm.j < qm.chunks
  /\ IF qm.j + 1 > Len(qm.train_dataframe)
     THEN Crash("IndexError") /\ UNCHANGED <<qm, ghost>>
     ELSE LET fr == qm.train_dataframe[qm.j + 1]
              tr == qm.train_target_dataframe[qm.j + 1]
          IN  \E r \in {train_step(qm.i, qm.opt_state,
                                   FeatureRows(fr[1], fr[2]), TargetRows(tr[1], tr[2]))} :
              /\ qm' = [qm EXCEPT !.loss_value = Bound(r.loss),
                                  !.acc_value = Bound(r.acc),
                                  !.opt_state = r.opt_state,
                                  !.loss_temp = [@ EXCEPT ![qm.j + 1] = r.loss],
                                  !.acc_temp = [@ EXCEPT ![qm.j + 1] = r.acc],
                                  !.j = @ + 1]
              /\ ghost' = [ghost EXCEPT !.upd_ids = Append(@, r.upd_i)]
              /\ UNCHANGED <<pc, err>>
  /\ UNCHANGED <<config, opt_state, train, test, files, printed, ts>>

\* QuantumModel, lines 84-87: the epoch's averages and the periodic line.
QM_Epoch_End ==
  /\ script = "qm" /\ pc = "qm_batch" /\ qm.j = qm.chunks
  /\ qm' = [qm EXCEPT !.train_loss_data = [@ EXCEPT ![qm.i + 1] = Average(qm.loss_temp)],
                      !.train_acc_data = [@ EXCEPT ![qm.i + 1] = Average(qm.acc_temp)],
                      !.i = @ + 1]
  /\ printed' = IF (qm.i + 1) % PERIOD = 0
                THEN Append(printed, <<qm.i + 1, qm.loss_value[1], qm.acc_value[1]>>)
                ELSE printed
  /\ pc' = "qm_epoch"
  /\ UNCHANGED <<config, err, opt_state, train, test, files, ts, ghost>>

NextQM == QM_Enter \/ QM_Epoch \/ QM_Batch \/ QM_Epoch_End

\* ------------------------------------------------- Train_Step on its own
\* Optimizer states: every triple of residues.
OptStates == [x : 0..(ParamMod - 1), m : 0..(ParamMod - 1), v : 0..(ParamMod - 1)]

\* One call of Train_Step and of train_step on the same arguments: a step
\* index, an optimizer state, and rows lo..hi of a dataset as the batch.
InitStep ==
  /\ script = "step" /\ pc = "step_call" /\ err = ""
  /\ TRAIN_SIZE = MaxN /\ TEST_SIZE = MaxN /\ BATCH_SIZE = 1 /\ N_EPOCHS = 0
  /\ opt_state = opt_init(weights)
  /\ train = NoTrain /\ test = NoTest /\ files = <<>> /\ printed = <<>>
  /\ qm = NoQM /\ ghost = NoGhost
  /\ \E i \in 0..MaxStepId, s \in OptStates, lo \in 1..MaxN, hi \in 1..MaxN :
       /\ lo <= hi
       /\ ts = [stepid |-> i, opt_state |-> s, lo |-> lo, hi |-> hi,
                out |-> Unbound, out_qm |-> Unbound]

Call_Train_Step ==
  /\ script = "step" /\ pc = "step_call"
  /\ ts' = [ts EXCEPT !.out = Bound(Train_Step(ts.stepid, ts.opt_state,
                                     FeatureRows(ts.lo, ts.hi), TargetRows(ts.lo, ts.hi)))]
  /\ pc' = "step_call_qm"
  /\ UNCHANGED <<config, err, opt_state, train, test, files, printed, qm, ghost>>

Call_train_step ==
  /\ script = "step" /\ pc = "step_call_qm"
  /\ ts' = [ts EXCEPT !.out_qm = Bound(train_step(ts.stepid, ts.opt_state,
                                     FeatureRows(ts.lo, ts.hi), TargetRows(ts.lo, ts.hi)))]
  /\ pc' = "step_done"
  /\ UNCHANGED <<config, err, opt_state, train, test, files, printed, qm, ghost>>

NextStep == Call_Train_Step \/ Call_train_step

\* --------------------------------------------------------- specifications
Init == InitMPS \/ InitQM
Next == NextMPS \/ NextQM
Spec == Init /\ [][Next]_vars

SpecStep == InitStep /\ [][NextStep]_vars

\* ----------------------------------------------------------- properties
\* Train_Model was called and is over: it raised, or it returned and
\* Run_Model went on to Test_Model.
TrainStopped ==
  /\ script = "mps" /\ ghost.mode = "train"
  /\ pc \in {"crashed", "test_model", "test_batch", "test_done"}

\* The batch size divides the training set: Batch_and_Shuffle has nothing to
\* drop and nothing to refuse.
EvenTrainingSet == BATCH_SIZE <= TRAIN_SIZE /\ TRAIN_SIZE % BATCH_SIZE = 0

\* The dataset the branch taken hands to Batch_and_Shuffle.
RowsUsed == IF ghost.mode = "train" THEN TRAIN_SIZE ELSE TEST_SIZE

\* C1: a run of Train_Model over E epochs of C = floor(N / BATCH_SIZE)
\* batches reaches its return statement having written every slot 0..E*C-1
\* of loss_data and acc_data exactly once, in increasing order.
C1_CompleteRunRecordsEveryStep ==
  (TrainStopped /\ EvenTrainingSet /\ N_EPOCHS > 0) =>
     /\ ghost.returned # Unbound
     /\ ghost.slots = [k \in 1..(N_EPOCHS * (TRAIN_SIZE \div BATCH_SIZE)) |-> k - 1]

\* C2: for 1 <= BATCH_SIZE <= N, divisible or not, a call of
\* Batch_and_Shuffle returns floor(N / BATCH_SIZE) batches of exactly
\* BATCH_SIZE rows each.
C2_BatchesOfBatchSize ==
  (script = "mps" /\ ghost.mode \in {"train", "load"} /\ BATCH_SIZE <= RowsUsed) =>
     /\ err \notin {"ValueError", "ZeroDivisionError"}
     /\ pc = "train_batch" =>
          /\ Len(train.train_f) = TRAIN_SIZE \div BATCH_SIZE
          /\ Len(train.train_t) = TRAIN_SIZE \div BATCH_SIZE
          /\ \A b \in 1..Len(train.train_f) :
               Len(train.train_f[b]) = BATCH_SIZE /\ Len(train.train_t[b]) = BATCH_SIZE
     /\ pc \in {"test_batch", "test_done"} =>
          /\ Len(test.test_f) = TEST_SIZE \div BATCH_SIZE
          /\ Len(test.test_t) = TEST_SIZE \div BATCH_SIZE
          /\ \A b \in 1..Len(test.test_f) :
               Len(test.test_f[b]) = BATCH_SIZE /\ Len(test.test_t[b]) = BATCH_SIZE

\* C3: with BATCH_SIZE > N, Batch_and_Shuffle returns zero batches and
\* neither Train_Model's epoch nor Test_Model raises: no step is performed.
C3_OversizedBatchIsNoOp ==
  (script = "mps" /\ ghost.mode \in {"train", "load"} /\ BATCH_SIZE > RowsUsed) =>
     /\ err # "ZeroDivisionError"
     /\ pc = "train_batch" => train.chunks = 0
     /\ pc \in {"test_batch", "test_done"} => test.chunks = 0

\* Batches f (features) and t (labels) cut from an n-row dataset: no dataset
\* row is in two different batches, and row k of batch b of f and entry k of
\* batch b of t are the features and the label of one dataset row.
DisjointAndAligned(f, t, n) ==
  /\ \A b1, b2 \in 1..Len(f) : \A k1 \in 1..Len(f[b1]), k2 \in 1..Len(f[b2]) :
       b1 # b2 => f[b1][k1] # f[b2][k2]
  /\ Len(t) = Len(f)
  /\ \A b \in 1..Len(f) :
       /\ Len(t[b]) = Len(f[b])
       /\ \A k \in 1..Len(f[b]) :
            \E r \in 1..n : f[b][k] = FeatureRow(r) /\ t[b][k] = Label(r)

\* C4: within one call of Batch_and_Shuffle no dataset row appears in two
\* different batches, and the features and the label at the same place of
\* the same batch come from the same dataset row.
C4_BatchesDisjointAndAligned ==
  /\ (script = "mps" /\ pc = "train_batch") =>
        DisjointAndAligned(train.train_f, train.train_t, TRAIN_SIZE)
  /\ (script = "mps" /\ pc \in {"test_batch", "test_done"}) =>
        DisjointAndAligned(test.test_f, test.test_t, TEST_SIZE)

\* C4's case: a call that returned several batches in a shuffled order.
C4_Witness ==
  /\ script = "mps" /\ pc = "test_batch"
  /\ Len(test.test_f) >= 2 /\ Len(test.test_f[1]) >= 2
  /\ test.test_f[1][1] # FeatureRow(1)
  /\ test.test_t[1][1] # test.test_t[1][2]

\* The names np.save is called with, for E epochs: one per reporting period,
\* keyed by the epoch, then the final one.
ExpectedCheckpoints(E) ==
  [k \in 1..(E \div PERIOD + 1) |->
     IF k <= E \div PERIOD THEN <<"mps_weights_epcoh", k * PERIOD>>
     ELSE <<"final_mps_weights", 0>>]

\* C5: Train_Model persists a checkpoint keyed by i+1 at the end of every
\* epoch with (i+1) mod 100 = 0 and at no other, and the final checkpoint
\* exactly once after the last epoch, for every epoch count.
C5_CheckpointsPersisted ==
  (TrainStopped /\ EvenTrainingSet) =>
     /\ Len(files) = Len(ExpectedCheckpoints(N_EPOCHS))
     /\ \A k \in 1..Len(files) : files[k][1] = ExpectedCheckpoints(N_EPOCHS)[k]

\* What a step returns when every metric is taken at the parameters of the
\* state passed in and the update consumes the gradient taken there too.
StepAtSnapshot(r, stepid, state, lo, hi) ==
  LET w == get_params(state)
      x == FeatureRows(lo, hi)
      y == TargetRows(lo, hi)
  IN  /\ r.loss = Loss(w, x, y)
      /\ r.acc = Accuracy(w, x, y)
      /\ r.opt_state = opt_update(stepid, Grad(w, x, y), state)

\* C6: in every training step the loss, the gradient and the accuracy are
\* computed at the parameters of the optimizer state passed in, and the
\* state returned is the update of that state by that gradient: the recorded
\* pair never reflects the parameters after the update.
C6_MetricsAtPassedSnapshot ==
  /\ (script = "step" /\ ts.out # Unbound) =>
        StepAtSnapshot(ts.out[1], ts.stepid, ts.opt_state, ts.lo, ts.hi)
  /\ (script = "step" /\ ts.out_qm # Unbound) =>
        StepAtSnapshot(ts.out_qm[1], ts.stepid, ts.opt_state, ts.lo, ts.hi)

\* C6's case: a step whose update moved the parameters to a point where the
\* accuracy and the loss differ from the ones recorded.
C6_Witness ==
  /\ script = "step" /\ ts.out # Unbound /\ ts.out_qm # Unbound
  /\ get_params(ts.out[1].opt_state) # get_params(ts.opt_state)
  /\ ts.out[1].acc # Accuracy(get_params(ts.out[1].opt_state),
                              FeatureRows(ts.lo, ts.hi), TargetRows(ts.lo, ts.hi))
  /\ ts.out[1].loss # Loss(get_params(ts.out[1].opt_state),
                           FeatureRows(ts.lo, ts.hi), TargetRows(ts.lo, ts.hi))

\* C7: the step index handed to the optimizer update is 0 on the first call
\* and one more on each later call, across epochs.
C7_StepIndexCountsUpdates ==
  \A k \in 1..Len(ghost.upd_ids) : ghost.upd_ids[k] = k - 1

\* C8: at every epoch where the periodic line is due it is emitted, with the
\* loss and the accuracy recorded at the last step of that epoch (slot
\* step-1), and the run goes on.
C8_ProgressLineShowsLastStep ==
  /\ (TrainStopped /\ EvenTrainingSet) =>
        \A e \in 1..N_EPOCHS :
           e % PERIOD = 0 =>
             \E n \in 1..Len(printed) :
                printed[n] = <<e, train.loss_data[e * train.z], train.acc_data[e * train.z]>>
  /\ (script = "qm" /\ pc = "qm_epoch" /\ qm.i > 0 /\ qm.i % PERIOD = 0) =>
        /\ printed # <<>>
        /\ printed[Len(printed)] =
             <<qm.i, qm.loss_temp[qm.chunks], qm.acc_temp[qm.chunks]>>

\* Test_Model is running or has ended, by a return or by an exception.
InTestModel ==
  /\ script = "mps" /\ ghost.mode = "load"
  /\ pc \in {"test_model", "test_batch", "test_done", "crashed"}

\* C9: Test_Model partitions the held-out set once, runs one evaluation step
\* per batch, and leaves the parameters it was given and the optimizer state
\* as they were: no optimizer update is called during evaluation.
C9_TestModelLeavesParameters ==
  InTestModel =>
     /\ test.w = ghost.w_in
     /\ opt_state = opt_init(weights)
     /\ ghost.upd_ids = <<>>
     /\ pc = "test_model" => ghost.shuffles = 0
     /\ pc \in {"test_batch", "test_done"} => ghost.shuffles = 1
     /\ pc = "test_batch" => ghost.test_steps = test.j
     /\ pc = "test_done" => ghost.test_steps = test.chunks /\ test.chunks = Len(test.test_f)

\* C9's case: Test_Model returned after several evaluation steps.
C9_Witness ==
  /\ InTestModel /\ pc = "test_done"
  /\ test.chunks >= 2 /\ ghost.test_steps = test.chunks

\* C10: the state passed to the first training step is the one made by
\* initialising the optimizer with the initial weights, the state passed to
\* each later step is the one the previous step returned, and Train_Model
\* returns the state the last step returned.
C10_OptimizerStateThreaded ==
  /\ \A k \in 1..Len(ghost.step_args) :
       ghost.step_args[k] = IF k = 1 THEN Bound(opt_init(weights))
                            ELSE Bound(ghost.step_rets[k - 1])
  /\ (TrainStopped /\ EvenTrainingSet /\ N_EPOCHS > 0) =>
       /\ ghost.step_rets # <<>>
       /\ ghost.returned = Bound(ghost.step_rets[Len(ghost.step_rets)])

====
